---- MODULE Spec2Model ----
(***************************************************************************)
(* Quine-McCluskey minimiser of src/qm.py: the Minterm class (a ternary    *)
(* bit pattern, the indices it covers, a used flag) and the QM class       *)
(* (grouping by 1-bits, prime implicants, essential implicants, the cover  *)
(* search over the remaining implicants, the rendering of the result).     *)
(*                                                                         *)
(* A Python list is a sequence; a str of bits is a sequence of the         *)
(* one-character strings "0", "1", "-"; the expression get_function        *)
(* returns is the sequence of the pieces __get_function appends to its     *)
(* result ("(", "NOT ", a variable, " AND ", " OR ", ")"), and Text gives  *)
(* the string itself.                                                      *)
(***************************************************************************)
EXTENDS Integers, Sequences, FiniteSets, TLC

\* ------------------------------------------------------------------ bounds

\* The variable lists tried are the prefixes of VarNames of length 1..MaxVars.
MaxVars == 3
\* The indices listed as values or don't-cares are at most MaxIndex.
MaxIndex == 7
\* The list of don't-cares a caller starts with has at most MaxDontCares indices.
MaxDontCares == 2

VarNames == <<"A", "B", "C", "D", "E">>

\* ------------------------------------------------------- Python list helpers

RECURSIVE Insert(_, _)
Insert(x, s) ==
    IF s = <<>> THEN <<x>>
    ELSE IF x < Head(s) THEN <<x>> \o s
    ELSE <<Head(s)>> \o Insert(x, Tail(s))

\* list.sort() on a list of integers
RECURSIVE Sort(_)
Sort(s) == IF s = <<>> THEN <<>> ELSE Insert(Head(s), Sort(Tail(s)))

Range(s) == {s[i] : i \in 1..Len(s)}

\* str.count / list.count
RECURSIVE Count(_, _)
Count(s, x) ==
    IF s = <<>> THEN 0
    ELSE (IF Head(s) = x THEN 1 ELSE 0) + Count(Tail(s), x)

\* list.index(x): the 1-based position of the first x (0 when absent; Python raises)
RECURSIVE IndexFrom(_, _, _)
IndexFrom(s, x, i) ==
    IF i > Len(s) THEN 0
    ELSE IF s[i] = x THEN i
    ELSE IndexFrom(s, x, i + 1)

Index(s, x) == IndexFrom(s, x, 1)

RECURSIVE Flatten(_)
Flatten(ss) == IF ss = <<>> THEN <<>> ELSE Head(ss) \o Flatten(Tail(ss))

\* bin(value)[2:]
RECURSIVE Bin(_)
Bin(v) ==
    IF v < 2 THEN <<IF v = 1 THEN "1" ELSE "0">>
    ELSE Bin(v \div 2) \o <<IF v % 2 = 1 THEN "1" ELSE "0">>

\* str.rjust(width, "0"): pads on the left, never cuts
Rjust(s, width) ==
    IF Len(s) >= width THEN s
    ELSE [i \in 1..(width - Len(s)) |-> "0"] \o s

Pow2(n) == 2 ^ n

\* ----------------------------------------------------------------- Minterm

\* Minterm.__init__: the values are sorted, the term starts unused
Minterm(values, value) == [values |-> Sort(values), value |-> value, used |-> FALSE]

\* Python's None, as combine returns it
None == [none |-> TRUE]

\* Minterm.__eq__: the bit pattern and the values; the used flag is not compared
TermEq(a, b) == a.value = b.value /\ a.values = b.values

\* term in list (by __eq__)
TermIn(t, s) == \E i \in 1..Len(s) : TermEq(s[i], t)

\* Minterm.use
Use(t) == [t EXCEPT !.used = TRUE]

\* The loop of combine from position char on, with diff differences so far
RECURSIVE CombineScan(_, _, _, _, _)
CombineScan(a, b, char, diff, result) ==
    IF char > Len(a.value) THEN Minterm(a.values \o b.values, result)
    ELSE LET differs == a.value[char] # b.value[char]
             diff2 == IF differs THEN diff + 1 ELSE diff
             result2 == result \o <<IF differs THEN "-" ELSE a.value[char]>>
         IN  IF diff2 > 1 THEN None
             ELSE CombineScan(a, b, char + 1, diff2, result2)

\* CombineGuard left out
NoGuard(a, b) == FALSE

\* The guard of combine: the same pattern or the same values
CombineGuard(a, b) == a.value = b.value \/ a.values = b.values

\* Minterm.combine
combine(a, b) ==
    IF CombineGuard(a, b) THEN None ELSE CombineScan(a, b, 1, 0, <<>>)

\* -------------------------------------------------------------- QM helpers

\* QM.__get_bits
get_bits(value, n) == Rjust(Bin(value), n)

\* QM.__initial_group: groups[c + 1] holds the terms with c 1-bits, in list order
initial_group(all_values, n) ==
    LET terms == [i \in 1..Len(all_values) |->
                    Minterm(<<all_values[i]>>, get_bits(all_values[i], n))]
    IN  [c \in 1..(n + 1) |->
            SelectSeq(terms, LAMBDA t : Count(t.value, "1") = c - 1)]

\* The terms of s, each kept at its first occurrence (x not in list: append)
RECURSIVE Dedup(_, _)
Dedup(s, acc) ==
    IF s = <<>> THEN acc
    ELSE Dedup(Tail(s), IF TermIn(Head(s), acc) THEN acc ELSE Append(acc, Head(s)))

\* term3 of every comparison: tries[c][i][j] is groups[c][i].combine(groups[c + 1][j])
Tries(groups) ==
    [c \in 1..(Len(groups) - 1) |->
        [i \in 1..Len(groups[c]) |->
            [j \in 1..Len(groups[c + 1]) |-> combine(groups[c][i], groups[c + 1][j])]]]

\* new_groups after the comparisons: the terms that are not None, in the order
\* of the loops, each appended unless already in its new group
NewGroups(tries) ==
    [c \in 1..Len(tries) |->
        Dedup(SelectSeq(Flatten(tries[c]), LAMBDA t : t # None), <<>>)]

\* Marked with term2.use() left out: only the first term of a pair is marked
MarkedFirstOnly(groups, tries) ==
    [c \in 1..Len(groups) |->
        [i \in 1..Len(groups[c]) |->
            IF /\ c < Len(groups)
               /\ \E j \in 1..Len(groups[c + 1]) : tries[c][i][j] # None
            THEN Use(groups[c][i])
            ELSE groups[c][i]]]

\* groups after the comparisons: term1.use() and term2.use() mark the two terms
\* of every comparison that was not None
Marked(groups, tries) ==
    [c \in 1..Len(groups) |->
        [i \in 1..Len(groups[c]) |->
            IF \/ /\ c < Len(groups)
                  /\ \E j \in 1..Len(groups[c + 1]) : tries[c][i][j] # None
               \/ /\ c > 1
                  /\ \E j \in 1..Len(groups[c - 1]) : tries[c - 1][j][i] # None
            THEN Use(groups[c][i])
            ELSE groups[c][i]]]

\* QM.__get_prime_implicants
RECURSIVE get_prime_implicants(_)
get_prime_implicants(groups) ==
    IF Len(groups) = 1 THEN groups[1]
    ELSE LET tries == Tries(groups)
             here == SelectSeq(Flatten(Marked(groups, tries)), LAMBDA t : ~t.used)
             deeper == SelectSeq(get_prime_implicants(NewGroups(tries)),
                                 LAMBDA t : ~t.used)
         IN  Dedup(deeper, Dedup(here, <<>>))

\* ------------------------------------------------------------ cover search

\* The subset of prime_implicants that bin(i), padded to their number, selects
SubsetAt(i, prime_implicants) ==
    LET bin_value == Rjust(Bin(i), Len(prime_implicants))
    IN  Flatten([index \in 1..Len(bin_value) |->
                    IF bin_value[index] = "1"
                    THEN <<prime_implicants[index]>> ELSE <<>>])

\* The sorted list of the elements of a set of integers
RECURSIVE SortSet(_)
SortSet(S) ==
    IF S = {} THEN <<>>
    ELSE LET m == CHOOSE x \in S : \A y \in S : x <= y
         IN  <<m>> \o SortSet(S \ {m})

\* temp_values of a subset: the values of `values` its implicants cover, sorted
TempValues(subset, values) ==
    SortSet({v \in UNION {Range(subset[k].values) : k \in 1..Len(subset)} :
                v \in Range(values)})

\* Replaces with the comparison of the lengths turned round
ReplacesLonger(subset, min_set, values) ==
    Len(subset) > Len(min_set) /\ TempValues(subset, values) = values

\* Whether a subset replaces min_set: it is shorter and its temp_values are the
\* values
Replaces(subset, min_set, values) ==
    Len(subset) < Len(min_set) /\ TempValues(subset, values) = values

\* The loop over power_set for its subsets first..last, entered with min_set.
\* The range is walked in order, half by half: the second half is entered with
\* what the first half leaves in min_set.
RECURSIVE MinSetFrom(_, _, _, _, _)
MinSetFrom(first, last, min_set, values, prime_implicants) ==
    IF first > last THEN min_set
    ELSE IF first = last THEN
        LET subset == SubsetAt(first, prime_implicants)
        IN  IF Replaces(subset, min_set, values) THEN subset ELSE min_set
    ELSE LET mid == (first + last) \div 2
             half == MinSetFrom(first, mid, min_set, values, prime_implicants)
         IN  IF half = min_set
             THEN MinSetFrom(mid + 1, last, min_set, values, prime_implicants)
             ELSE MinSetFrom(mid + 1, last, half, values, prime_implicants)

\* QM.__power_set (for at least one prime implicant; power_set[0] raises
\* IndexError for none)
power_set(values, prime_implicants) ==
    LET last == Pow2(Len(prime_implicants)) - 1
    IN  MinSetFrom(1, last, SubsetAt(1, prime_implicants), values, prime_implicants)

\* ------------------------------------------------------------------- solve

\* The prime implicants that cover value, in list order
Covering(value, prime_implicants) ==
    SelectSeq(prime_implicants, LAMBDA m : value \in Range(m.values))

\* IsEssential with uses >= 1 for uses == 1
IsEssentialAny(uses) == uses >= 1

\* Whether the prime implicants covering a value make one of them essential
IsEssential(uses) == uses = 1

\* values_used after the essential implicant last has been taken
MarkUsed(values_used, last, values, dont_cares) ==
    [k \in 1..Len(values) |->
        \/ values_used[k]
        \/ \E v \in Range(last.values) :
              v \notin Range(dont_cares) /\ Index(values, v) = k]

\* The essential pass from the i-th value on; st holds essential_prime_implicants
\* and values_used
RECURSIVE EssentialFrom(_, _, _, _, _)
EssentialFrom(i, st, values, dont_cares, prime_implicants) ==
    IF i > Len(values) THEN st
    ELSE LET covering == Covering(values[i], prime_implicants)
             uses == Len(covering)
             last == covering[uses]
             take == IsEssential(uses) /\ ~TermIn(last, st.essential)
             st2 == IF take
                    THEN [essential |-> Append(st.essential, last),
                          values_used |-> MarkUsed(st.values_used, last,
                                                   values, dont_cares)]
                    ELSE st
         IN  EssentialFrom(i + 1, st2, values, dont_cares, prime_implicants)

\* The candidates of the cover search: not essential, covering a value that is
\* no don't-care
Pool(prime_implicants, essential, dont_cares) ==
    SelectSeq(prime_implicants,
              LAMBDA p : /\ ~TermIn(p, essential)
                         /\ \E v \in Range(p.values) : v \notin Range(dont_cares))

\* The values not marked used, in the order of values
Residual(values, values_used) ==
    Flatten([index \in 1..Len(values) |->
                IF values_used[index] THEN <<>> ELSE <<values[index]>>])

\* QM.__solve, with the locals it ends with: path is "essential" (all values
\* used), "single" (one candidate left), "search" (the cover search ran) or
\* "raised" (the cover search had no candidate: IndexError)
solve(variables, values, dont_cares) ==
    LET prime_implicants ==
            get_prime_implicants(initial_group(values \o dont_cares, Len(variables)))
        st == EssentialFrom(1, [essential |-> <<>>,
                                values_used |-> [k \in 1..Len(values) |-> FALSE]],
                            values, dont_cares, prime_implicants)
        pool == Pool(prime_implicants, st.essential, dont_cares)
        residual == Residual(values, st.values_used)
        path == IF Count(st.values_used, FALSE) = 0 THEN "essential"
                ELSE IF Len(pool) = 1 THEN "single"
                ELSE IF Len(pool) = 0 THEN "raised"
                ELSE "search"
        chosen == IF path = "search" THEN power_set(residual, pool) ELSE <<>>
    IN  [prime_implicants |-> prime_implicants,
         essential |-> st.essential,
         values_used |-> st.values_used,
         pool |-> pool,
         residual |-> residual,
         path |-> path,
         chosen |-> chosen,
         result |-> IF path = "essential" THEN st.essential
                    ELSE IF path = "single" THEN st.essential \o pool
                    ELSE st.essential \o chosen]

\* --------------------------------------------------------------- rendering

\* str.count("-", from): the dashes of value at positions from..Len(value)
DashesFrom(value, from) ==
    Cardinality({k \in from..Len(value) : value[k] = "-"})

\* The bit that is rendered negated
NegatedBit(is_maxterm) == IF ~is_maxterm THEN "0" ELSE "1"

\* What __get_function appends for one implicant
Clause(value, variables, is_maxterm) ==
    LET paren == Count(value, "-") < Len(variables)
        bit(i) ==
            (IF value[i] = NegatedBit(is_maxterm) THEN <<"NOT ">> ELSE <<>>)
            \o (IF value[i] # "-" THEN <<variables[i]>> ELSE <<>>)
            \o (IF DashesFrom(value, i + 1) < Len(value) - i /\ value[i] # "-"
                THEN <<IF ~is_maxterm THEN " AND " ELSE " OR ">> ELSE <<>>)
    IN  (IF paren THEN <<"(">> ELSE <<>>)
        \o Flatten([i \in 1..Len(value) |-> bit(i)])
        \o (IF paren THEN <<")">> ELSE <<>>)

\* get_function without the test for the implicant of dashes alone
get_function_no_one(prime_implicants, variables, is_maxterm) ==
    IF Len(prime_implicants) = 0 THEN <<"0">>
    ELSE Flatten([j \in 1..Len(prime_implicants) |->
            Clause(prime_implicants[j].value, variables, is_maxterm)
            \o (IF j < Len(prime_implicants)
                THEN <<IF ~is_maxterm THEN " OR " ELSE " AND ">> ELSE <<>>)])

\* QM.__get_function, given what __solve returned
get_function(prime_implicants, variables, is_maxterm) ==
    IF Len(prime_implicants) = 0 THEN <<"0">>
    ELSE IF /\ Len(prime_implicants) = 1
            /\ Count(prime_implicants[1].value, "-") = Len(variables)
    THEN <<"1">>
    ELSE Flatten([j \in 1..Len(prime_implicants) |->
            Clause(prime_implicants[j].value, variables, is_maxterm)
            \o (IF j < Len(prime_implicants)
                THEN <<IF ~is_maxterm THEN " OR " ELSE " AND ">> ELSE <<>>)])

\* The string the pieces make
RECURSIVE Text(_)
Text(pieces) == IF pieces = <<>> THEN "" ELSE Head(pieces) \o Text(Tail(pieces))

\* ------------------------------------------------ reading an expression back

\* The value of the expression at an assignment of the variables (bits[i] is
\* "1" when variables[i] is true), with the usual precedence NOT, AND, OR
RECURSIVE ParseOr(_, _, _, _), ParseAnd(_, _, _, _), ParseNot(_, _, _, _)
RECURSIVE OrRest(_, _, _, _), AndRest(_, _, _, _)

ParseAtom(ts, p, variables, bits) ==
    IF ts[p] = "(" THEN
        LET r == ParseOr(ts, p + 1, variables, bits) IN [v |-> r.v, p |-> r.p + 1]
    ELSE IF ts[p] = "1" THEN [v |-> TRUE, p |-> p + 1]
    ELSE IF ts[p] = "0" THEN [v |-> FALSE, p |-> p + 1]
    ELSE [v |-> bits[Index(variables, ts[p])] = "1", p |-> p + 1]

ParseNot(ts, p, variables, bits) ==
    IF ts[p] = "NOT " THEN
        LET r == ParseNot(ts, p + 1, variables, bits) IN [v |-> ~r.v, p |-> r.p]
    ELSE ParseAtom(ts, p, variables, bits)

AndRest(ts, l, variables, bits) ==
    IF l.p <= Len(ts) /\ ts[l.p] = " AND " THEN
        LET r == ParseNot(ts, l.p + 1, variables, bits)
        IN  AndRest(ts, [v |-> l.v /\ r.v, p |-> r.p], variables, bits)
    ELSE l

ParseAnd(ts, p, variables, bits) ==
    AndRest(ts, ParseNot(ts, p, variables, bits), variables, bits)

OrRest(ts, l, variables, bits) ==
    IF l.p <= Len(ts) /\ ts[l.p] = " OR " THEN
        LET r == ParseAnd(ts, l.p + 1, variables, bits)
        IN  OrRest(ts, [v |-> l.v \/ r.v, p |-> r.p], variables, bits)
    ELSE l

ParseOr(ts, p, variables, bits) ==
    OrRest(ts, ParseAnd(ts, p, variables, bits), variables, bits)

\* The expression at index x: variables[i] is true when bit i of x is 1
Eval(ts, variables, x) ==
    ParseOr(ts, 1, variables, get_bits(x, Len(variables))).v

\* ------------------------------------------------------------------- state

VARIABLES
    variables,   \* the caller's list of variable names
    values,      \* the caller's list of values
    dont_cares,  \* the caller's list of don't-cares
    qm,          \* the QM instance: absent, built (with its fields) or raised
    solved,      \* the locals __solve ended with in qm's constructor
    qm2,         \* a second QM instance
    solved2,     \* the locals __solve ended with in qm2's constructor
    returned,    \* the strings the calls of qm.get_function have returned
    term1,       \* a term
    term2,       \* another term
    term3        \* what term1.combine(term2) returned

vars == <<variables, values, dont_cares, qm, solved, qm2, solved2, returned,
          term1, term2, term3>>

Absent == [status |-> "absent"]

\* The lists tried for a set of indices: ascending and descending
Orders == {"asc", "desc"}

Reverse(s) == [i \in 1..Len(s) |-> s[Len(s) + 1 - i]]

Listed(S, order) == IF order = "asc" THEN SortSet(S) ELSE Reverse(SortSet(S))

\* The indices a list may hold with n variables
Indices(n) == {x \in 0..MaxIndex : x < Pow2(n)}

\* A call site: n variables, lists of distinct indices, the two lists disjoint
Init ==
    /\ \E n \in 1..MaxVars : variables = SubSeq(VarNames, 1, n)
    /\ \E V \in SUBSET Indices(Len(variables)), order \in Orders :
          /\ values = Listed(V, order)
          /\ \E D \in SUBSET (Indices(Len(variables)) \ V) :
                /\ Cardinality(D) <= MaxDontCares
                /\ dont_cares = Listed(D, order)
    /\ qm = Absent
    /\ solved = Absent
    /\ qm2 = Absent
    /\ solved2 = Absent
    /\ returned = {}
    /\ term1 = None
    /\ term2 = None
    /\ term3 = None

\* ArgAfterInit with values += dont_cares, which extends the caller's list
ArgExtended(vals, dcs) == vals \o dcs

\* What QM.__init__ leaves in the caller's list of values: values + dont_cares
\* builds a new list, the argument is not written
ArgAfterInit(vals, dcs) == vals

\* QM.__init__: the instance QM(vs, vals, dcs, is_maxterm=mode), given what its
\* __solve did
NewQM(vs, vals, dcs, mode, s) ==
    IF s.path = "raised" THEN [status |-> "raised"]
    ELSE [status |-> "built",
          variables |-> vs,
          values |-> vals,
          dont_cares |-> dcs,
          all_values |-> vals \o dcs,
          is_maxterm |-> mode,
          function |-> get_function(s.result, vs, mode)]

\* qm = QM(variables, values, dont_cares, is_maxterm=mode)
Construct ==
    /\ qm = Absent
    /\ LET s == solve(variables, values, dont_cares)
       IN  /\ solved' = s
           /\ \E mode \in BOOLEAN :
                 qm' = NewQM(variables, values, dont_cares, mode, s)
    /\ values' = ArgAfterInit(values, dont_cares)
    /\ UNCHANGED <<variables, dont_cares, qm2, solved2, returned, term1, term2, term3>>

\* QM.get_function: the stored string
StoredFunction(q) == q.function

\* qm.get_function()
GetFunction ==
    /\ qm.status = "built"
    /\ returned' = returned \cup {StoredFunction(qm)}
    /\ UNCHANGED <<variables, values, dont_cares, qm, solved, qm2, solved2,
                   term1, term2, term3>>

\* qm2 = QM(variables, values, dont_cares, is_maxterm=qm's), from the same list
\* objects qm was built from
ConstructAgain ==
    /\ qm.status = "built"
    /\ qm2 = Absent
    /\ LET s == solve(variables, values, dont_cares)
       IN  /\ solved2' = s
           /\ qm2' = NewQM(variables, values, dont_cares, qm.is_maxterm, s)
    /\ values' = ArgAfterInit(values, dont_cares)
    /\ UNCHANGED <<variables, dont_cares, qm, solved, returned, term1, term2, term3>>

Next == Construct \/ GetFunction \/ ConstructAgain

Spec == Init /\ [][Next]_vars

\* The constructor alone
NextSolve == Construct

SpecSolve == Init /\ [][NextSolve]_vars

\* qm2 = QM(variables, values, dont_cares + [d], is_maxterm=qm's), for an index d
\* that is neither a value nor a don't-care
ConstructMoreDontCares ==
    /\ qm.status = "built"
    /\ qm2 = Absent
    /\ \E d \in Indices(Len(variables)) \ (Range(values) \cup Range(dont_cares)) :
          LET dcs == dont_cares \o <<d>>
              s == solve(variables, values, dcs)
          IN  /\ solved2' = s
              /\ qm2' = NewQM(variables, values, dcs, qm.is_maxterm, s)
              /\ values' = ArgAfterInit(values, dcs)
    /\ UNCHANGED <<variables, dont_cares, qm, solved, returned, term1, term2, term3>>

NextDC == Construct \/ ConstructMoreDontCares

SpecDC == Init /\ [][NextDC]_vars

\* The indices of a list with every bit complemented
Complemented(vals, n) == [i \in 1..Len(vals) |-> (Pow2(n) - 1) - vals[i]]

\* qm2 = QM(variables, [2^n - 1 - v for v in values], is_maxterm=True), for a qm
\* built in minterm mode without don't-cares
ConstructDual ==
    /\ qm.status = "built"
    /\ ~qm.is_maxterm
    /\ qm2 = Absent
    /\ LET comp == Complemented(values, Len(variables))
           s == solve(variables, comp, dont_cares)
       IN  /\ solved2' = s
           /\ qm2' = NewQM(variables, comp, dont_cares, TRUE, s)
    /\ UNCHANGED <<variables, values, dont_cares, qm, solved, returned,
                   term1, term2, term3>>

\* A call site without don't-cares
InitDual == Init /\ dont_cares = <<>>

NextDual == Construct \/ ConstructDual

SpecDual == InitDual /\ [][NextDual]_vars

\* term3 before term1.combine(term2) has been called
Pending == [pending |-> TRUE]

\* The term of a pattern: it covers the indices the pattern matches, as every
\* term __initial_group and combine build from lists of distinct indices does
TermOf(pattern, used) ==
    [values |-> SortSet({x \in 0..(Pow2(Len(pattern)) - 1) :
                            \A i \in 1..Len(pattern) :
                                \/ pattern[i] = "-"
                                \/ pattern[i] = get_bits(x, Len(pattern))[i]}),
     value |-> pattern,
     used |-> used]

\* Two terms of the same pattern length, each used or not by earlier comparisons
InitTerms ==
    /\ \E n \in 1..MaxVars : variables = SubSeq(VarNames, 1, n)
    /\ \E p1, p2 \in [1..Len(variables) -> {"0", "1", "-"}], u1, u2 \in BOOLEAN :
          /\ term1 = TermOf(p1, u1)
          /\ term2 = TermOf(p2, u2)
    /\ term3 = Pending
    /\ values = <<>>
    /\ dont_cares = <<>>
    /\ qm = Absent
    /\ solved = Absent
    /\ qm2 = Absent
    /\ solved2 = Absent
    /\ returned = {}

\* The step of __get_prime_implicants on a pair: term3 = term1.combine(term2),
\* and term1.use(), term2.use() when term3 is not None
Attempt ==
    /\ term3 = Pending
    /\ term3' = combine(term1, term2)
    /\ term1' = IF term3' # None THEN Use(term1) ELSE term1
    /\ term2' = IF term3' # None THEN Use(term2) ELSE term2
    /\ UNCHANGED <<variables, values, dont_cares, qm, solved, qm2, solved2, returned>>

NextCombine == Attempt

SpecCombine == InitTerms /\ [][NextCombine]_vars

\* ------------------------------------------- the vocabulary of the properties

\* The number of variables of the call site
NumVars == Len(variables)

\* Every index of the truth table
AllIndices == 0..(Pow2(NumVars) - 1)

\* The ternary patterns of length n
Patterns(n) == [1..n -> {"0", "1", "-"}]

\* The bit of index x that belongs to the i-th of n variables (the first
\* variable has the most significant bit)
BitOf(x, i, n) == (x \div Pow2(n - i)) % 2

\* Whether index x matches a pattern: each position is "-" or the bit of x
Matches(pattern, x) ==
    \A i \in 1..Len(pattern) :
        pattern[i] = "-" \/ (pattern[i] = "1" <=> BitOf(x, i, Len(pattern)) = 1)

\* The indices a pattern of the call site's width matches
Cube(pattern) == {x \in AllIndices : Matches(pattern, x)}

\* The patterns whose cube lies in S and cannot be widened within S
MaximalCubes(S) ==
    LET inside == {p \in Patterns(NumVars) :
                      \A x \in AllIndices : Matches(p, x) => x \in S}
    IN  {p \in inside :
            \A i \in 1..NumVars : p[i] # "-" => [p EXCEPT ![i] = "-"] \notin inside}

\* The indices the terms of a list cover
CoveredBy(terms) == UNION {Range(terms[k].values) : k \in 1..Len(terms)}

\* The terms of a list at the positions of a set
Pick(terms, I) ==
    Flatten([k \in 1..Len(terms) |-> IF k \in I THEN <<terms[k]>> ELSE <<>>])

Built == qm.status = "built"

\* ---------------------------------------------------------------------- C1

\* C1: in minterm mode the expression get_function returns is true at every
\* listed value and false at every index that is neither a value nor a
\* don't-care.
C1_Soundness ==
    (Built /\ ~qm.is_maxterm) =>
        \A x \in AllIndices :
            /\ x \in Range(qm.values) => Eval(qm.function, variables, x)
            /\ x \notin Range(qm.all_values) => ~Eval(qm.function, variables, x)

\* ---------------------------------------------------------------------- C8

\* Whether a subset of the candidates covers, within the residual, all of it
ExactCover(subset, residual) ==
    CoveredBy(subset) \cap Range(residual) = Range(residual)

\* C8: when the cover search runs (two or more candidates, a non-empty
\* residual), what it returns is a subset that covers exactly the residual,
\* with the fewest implicants of all such subsets, and the first of that size
\* in the enumeration i = 1 .. 2^k - 1.
C8_MinimalExactCover ==
    (Built /\ solved.path = "search") =>
        LET k == Len(solved.pool)
            covers == {i \in 1..(Pow2(k) - 1) :
                          ExactCover(SubsetAt(i, solved.pool), solved.residual)}
        IN  \E i \in covers :
                /\ solved.chosen = SubsetAt(i, solved.pool)
                /\ \A j \in covers :
                      /\ Len(SubsetAt(j, solved.pool)) >= Len(solved.chosen)
                      /\ Len(SubsetAt(j, solved.pool)) = Len(solved.chosen) => i <= j

\* ---------------------------------------------------------------------- C2

\* C2: the list __solve returns has no more implicants than any subset of the
\* prime implicants that covers every listed value.
C2_Minimality ==
    Built =>
        \A I \in SUBSET (1..Len(solved.prime_implicants)) :
            Range(qm.values) \subseteq CoveredBy(Pick(solved.prime_implicants, I))
                => Len(solved.result) <= Cardinality(I)

\* C2's case: the cover search ran and added to the essential implicants
C2_Witness ==
    /\ Built
    /\ solved.path = "search"
    /\ Len(solved.essential) >= 1
    /\ Len(solved.result) = Len(solved.essential) + 1

\* ---------------------------------------------------------------------- C7

\* The terms of every level of the reduction, with the used flags the
\* comparisons of their level left (the last level is not compared)
RECURSIVE LevelTerms(_)
LevelTerms(groups) ==
    IF Len(groups) = 1 THEN Range(groups[1])
    ELSE LET tries == Tries(groups)
         IN  Range(Flatten(Marked(groups, tries))) \cup LevelTerms(NewGroups(tries))

\* C7: the prime implicants are, once each, the terms whose pattern is a
\* maximal cube of values + dont_cares, each covering the indices its pattern
\* matches; and a term of the reduction is among them exactly when its used
\* flag is still false.
C7_PrimeImplicantsExact ==
    Built =>
        LET pis == solved.prime_implicants
        IN  /\ {pis[k].value : k \in 1..Len(pis)} = MaximalCubes(Range(qm.all_values))
            /\ \A k, l \in 1..Len(pis) : pis[k].value = pis[l].value => k = l
            /\ \A k \in 1..Len(pis) :
                  /\ Range(pis[k].values) = Cube(pis[k].value)
                  /\ Len(pis[k].values) = Cardinality(Cube(pis[k].value))
            /\ \A t \in LevelTerms(initial_group(qm.all_values, NumVars)) :
                  TermIn(t, pis) <=> ~t.used

\* C7's case: prime implicants of several levels, and a don't-care among the inputs
C7_Witness ==
    /\ Built
    /\ qm.dont_cares # <<>>
    /\ \E k, l \in 1..Len(solved.prime_implicants) :
          /\ Count(solved.prime_implicants[k].value, "-") = 1
          /\ Count(solved.prime_implicants[l].value, "-") = 2

\* ---------------------------------------------------------------------- C9

\* The prime implicants that alone cover some listed value
OnlyCover(pis, vals) ==
    {p \in Range(pis) :
        \E v \in Range(vals) :
            \A q \in Range(pis) : v \in Range(q.values) <=> q = p}

\* C9: the essential list holds, once each, the prime implicants that are the
\* only one to cover some listed value; the values marked used are those an
\* essential implicant covers; with every value marked __solve returns the
\* essential list and no cover search runs, and otherwise the cover search is
\* given the listed values no essential implicant covers.
C9_EssentialAndResidual ==
    Built =>
        LET ess == solved.essential
            uncovered == SelectSeq(qm.values, LAMBDA v : v \notin CoveredBy(ess))
        IN  /\ \A k, l \in 1..Len(ess) : TermEq(ess[k], ess[l]) => k = l
            /\ Range(ess) = OnlyCover(solved.prime_implicants, qm.values)
            /\ \A k \in 1..Len(qm.values) :
                  solved.values_used[k] <=> qm.values[k] \in CoveredBy(ess)
            /\ IF \A k \in 1..Len(qm.values) : solved.values_used[k]
               THEN solved.path = "essential" /\ solved.result = ess
               ELSE solved.path = "search" /\ solved.residual = uncovered

\* C9's case: an essential implicant covering a don't-care, and a residual left
C9_Witness ==
    /\ Built
    /\ solved.path = "search"
    /\ \E k \in 1..Len(solved.essential) :
          Range(solved.essential[k].values) \cap Range(qm.dont_cares) # {}
    /\ Len(solved.residual) >= 2

\* ---------------------------------------------------------------------- C5

\* C5: with every index listed as a value get_function returns "1"; with no
\* value listed it returns "0", whatever the don't-cares.
C5_Constants ==
    Built =>
        /\ (Range(qm.values) = AllIndices /\ qm.dont_cares = <<>>)
              => Text(StoredFunction(qm)) = "1"
        /\ qm.values = <<>> => Text(StoredFunction(qm)) = "0"

\* C5's case: two variables, every index listed, "1" returned
C5_Witness ==
    /\ Built
    /\ NumVars = 2
    /\ Range(qm.values) = AllIndices
    /\ returned = {<<"1">>}

\* ---------------------------------------------------------------------- C6

C3_DontCareMonotone ==
    (Built /\ ~qm.is_maxterm /\ qm2.status = "built") =>
        /\ Len(solved2.result) <= Len(solved.result)
        /\ \A x \in AllIndices \ Range(qm2.dont_cares) :
              Eval(qm2.function, variables, x) <=> Eval(qm.function, variables, x)

\* ---------------------------------------------------------------------- C4

\* C4: the maxterm expression g of the complemented indices and the minterm
\* expression f of the indices are duals: g(x) = NOT f(NOT x) at every x.
C4_Duality ==
    (Built /\ qm2.status = "built") =>
        \A x \in AllIndices :
            Eval(qm2.function, variables, x)
                <=> ~Eval(qm.function, variables, (Pow2(NumVars) - 1) - x)

\* --------------------------------------------------------------------- C10

\* The positions at which two patterns differ
DiffPositions(a, b) == {i \in 1..Len(a.value) : a.value[i] # b.value[i]}

====
